---- MODULE Spec2Model ----
(***************************************************************************)
(* Financial analytics pipeline: sequential fetch of daily price series,   *)
(* per-record parsing, skip-on-conflict storage into stock_prices, report. *)
(* Modelled from src/src/data_fetcher.py, src/src/main.py and              *)
(* src/src/database.py.                                                    *)
(***************************************************************************)
EXTENDS Integers, Sequences, FiniteSets, TLC

\* ------------------------------------------------------------------ bounds
\* How many of the tracked symbols a run handles (a prefix of the list).
NumSymbols == 2
\* Longest raw series (day-entries per provider response).
MaxLen == 2
\* How many times the pipeline is run against the same database.
MaxRuns == 2
\* How many times an ingested run is replayed with the same provider answers.
MaxReplays == 2

\* ------------------------------------------------------- program constants
\* main.py:25, self.symbols
AllSymbols == <<"JPM", "BAC", "WFC", "GS", "MS">>

symbols == SubSeq(AllSymbols, 1, NumSymbols)

SymbolSet == {symbols[n] : n \in 1..Len(symbols)}

\* The five fields of a day-entry, in the order parse_stock_data reads them.
FieldKeys == <<"1. open", "2. high", "3. low", "4. close", "5. volume">>

\* -------------------------------------------------------------- JSON values
\* A JSON value at a field of a day-entry: a string, null, a list, or no
\* value at all (the key is not in the mapping).
Str(s) == [t |-> "str", s |-> s]

Null == [t |-> "null", s |-> ""]

List == [t |-> "list", s |-> ""]

Absent == [t |-> "absent", s |-> ""]

\* A day-entry's value: a JSON object over the five fields ...
Day(o, h, l, c, v) ==
    [t |-> "object",
     f |-> ("1. open" :> o) @@ ("2. high" :> h) @@ ("3. low" :> l)
           @@ ("4. close" :> c) @@ ("5. volume" :> v)]

\* ... or a JSON value that is no object (a string, null).
NonObject(t) == [t |-> t, f |-> [k \in {FieldKeys[n] : n \in 1..5} |-> Absent]]

DayOf(c, v) == Day(c, c, c, c, v)

\* The day-entry values the provider may send: two well-formed ones, and one
\* for each way a field can be wrong.
DayValues ==
    { DayOf(Str("150.00"), Str("10")),
      DayOf(Str("153.00"), Str("20")),
      DayOf(Str("abc"), Str("10")),              \* non-numeric string
      DayOf(Str("150.00"), Str("10.5")),         \* not an integer literal
      DayOf(Absent, Str("10")),                  \* missing field
      DayOf(Null, Str("10")),                    \* null
      DayOf(Str("150.00"), List),                \* a non-string value
      NonObject("str") }                         \* the entry is no mapping

\* The date keys of a series: two spellings of one day, another day, and a
\* key that is no %Y-%m-%d date.
DateKeys == {"2024-01-01", "2024-1-1", "2024-01-02", "01/02/2024"}

Entries == [date_str : DateKeys, values : DayValues]

RECURSIVE SeriesOfLen(_)
\* time_series is a JSON object: its keys (date strings) are distinct, and
\* it is read in document order.
SeriesOfLen(n) ==
    IF n = 0 THEN {<<>>}
    ELSE {Append(s, e) : s \in SeriesOfLen(n - 1), e \in Entries} \
         {s \in {Append(s, e) : s \in SeriesOfLen(n - 1), e \in Entries} :
            \E a \in 1..(n - 1) : s[a].date_str = s[n].date_str}

SeriesSet == UNION {SeriesOfLen(n) : n \in 0..MaxLen}

\* -------------------------------------------------------------- conversions
\* An evaluation either yields a value or raises: exc is "none" or the
\* exception's class.
Ok(v) == [exc |-> "none", v |-> v]

Raise(e) == [exc |-> e, v |-> 0]

\* float(): the decimal literals of the model, as hundredths.
FloatLiteral ==
    ("150.00" :> 15000) @@ ("153.00" :> 15300) @@ ("10" :> 1000)
    @@ ("20" :> 2000) @@ ("10.5" :> 1050)

\* int(): the integer literals of the model.
IntLiteral == ("10" :> 10) @@ ("20" :> 20)

\* datetime.strptime(date_str, '%Y-%m-%d'): day number, 2024-01-01 = 1.
\* %m and %d accept one or two digits.
DateLiteral == ("2024-01-01" :> 1) @@ ("2024-1-1" :> 1) @@ ("2024-01-02" :> 2)

strptime(date_str) ==
    IF date_str \in DOMAIN DateLiteral THEN Ok(DateLiteral[date_str])
    ELSE Raise("ValueError")

\* values[key]: a mapping without the key raises KeyError; indexing a string
\* or None with a string raises TypeError.
GetItem(values, key) ==
    IF values.t # "object" THEN Raise("TypeError")
    ELSE IF values.f[key].t = "absent" THEN Raise("KeyError")
    ELSE [exc |-> "none", v |-> values.f[key]]

\* float(x) of a JSON value.
ToFloat(x) ==
    IF x.t # "str" THEN Raise("TypeError")
    ELSE IF x.s \in DOMAIN FloatLiteral THEN Ok(FloatLiteral[x.s])
    ELSE Raise("ValueError")

\* int(x) of a JSON value.
ToInt(x) ==
    IF x.t # "str" THEN Raise("TypeError")
    ELSE IF x.s \in DOMAIN IntLiteral THEN Ok(IntLiteral[x.s])
    ELSE Raise("ValueError")

\* float(values[key]) / int(values[key]): the subscript is evaluated first.
FloatField(values, key) ==
    IF GetItem(values, key).exc # "none" THEN Raise(GetItem(values, key).exc)
    ELSE ToFloat(GetItem(values, key).v)

IntField(values, key) ==
    IF GetItem(values, key).exc # "none" THEN Raise(GetItem(values, key).exc)
    ELSE ToInt(GetItem(values, key).v)

\* The record literal of parse_stock_data: its items are evaluated top to
\* bottom, and the first one that raises ends the evaluation.
RecordItems(date_str, values) ==
    << strptime(date_str),
       FloatField(values, "1. open"),
       FloatField(values, "2. high"),
       FloatField(values, "3. low"),
       FloatField(values, "4. close"),
       IntField(values, "5. volume") >>

FirstRaise(items) ==
    IF \A n \in 1..Len(items) : items[n].exc = "none" THEN "none"
    ELSE items[CHOOSE n \in 1..Len(items) :
                 /\ items[n].exc # "none"
                 /\ \A m \in 1..(n - 1) : items[m].exc = "none"].exc

MakeRecord(symbol, date_str, values, now) ==
    [symbol |-> symbol,
     date |-> RecordItems(date_str, values)[1].v,
     open_price |-> RecordItems(date_str, values)[2].v,
     high_price |-> RecordItems(date_str, values)[3].v,
     low_price |-> RecordItems(date_str, values)[4].v,
     close_price |-> RecordItems(date_str, values)[5].v,
     volume |-> RecordItems(date_str, values)[6].v,
     created_at |-> now]

\* Faulty variant: except KeyError alone.
CaughtKeyErrorOnly(exc) == exc = "KeyError"

\* except (KeyError, ValueError): the entry is dropped and the loop goes on.
Caught(exc) == exc \in {"KeyError", "ValueError"}

RECURSIVE ParseFrom(_, _, _, _, _)
\* The loop of parse_stock_data from entry n on, parsed_data being acc: an
\* exception that the except clause does not name leaves the function.
ParseFrom(symbol, ts, now, n, acc) ==
    IF n > Len(ts) THEN [exc |-> "none", data |-> acc]
    ELSE IF FirstRaise(RecordItems(ts[n].date_str, ts[n].values)) = "none"
         THEN ParseFrom(symbol, ts, now, n + 1,
                        Append(acc, MakeRecord(symbol, ts[n].date_str, ts[n].values, now)))
    ELSE IF Caught(FirstRaise(RecordItems(ts[n].date_str, ts[n].values)))
         THEN ParseFrom(symbol, ts, now, n + 1, acc)
    ELSE [exc |-> FirstRaise(RecordItems(ts[n].date_str, ts[n].values)),
          data |-> <<>>]

parse_stock_data(symbol, time_series_data, now) ==
    ParseFrom(symbol, time_series_data, now, 1, <<>>)

\* -------------------------------------------------------- provider responses
\* What requests.get / raise_for_status / response.json() give for one
\* request: an exception, or a JSON object with some of the three keys
\* fetch_daily_data looks at.
Responses ==
    {[raises |-> TRUE, keys |-> {}, ts |-> <<>>]}
    \cup {[raises |-> FALSE, keys |-> K, ts |-> <<>>] :
            K \in SUBSET {"Error Message", "Note"}}
    \cup {[raises |-> FALSE, keys |-> {"Time Series (Daily)"}, ts |-> s] :
            s \in SeriesSet}

\* None, as fetch_daily_data returns it.
None == [none |-> TRUE, ts |-> <<>>]

fetch_daily_data(resp) ==
    IF resp.raises THEN None
    ELSE IF "Error Message" \in resp.keys THEN None
    ELSE IF "Note" \in resp.keys THEN None
    ELSE IF "Time Series (Daily)" \notin resp.keys THEN None
    ELSE [none |-> FALSE, ts |-> resp.ts]

\* `if time_series:` -- None and the empty mapping are both false.
Truthy(time_series) == ~time_series.none /\ Len(time_series.ts) > 0

\* ------------------------------------------------------------------- state
VARIABLES
    pc,             \* where the process is in run(), "idle" between runs
    run,            \* number of the current run: the clock of datetime.now()
    i,              \* fetch_multiple_symbols: index of the next symbol
    all_data,       \* fetch_multiple_symbols: the dict, as its items in order
    requests,       \* symbols requested from the provider in this run, in order
    sleeps,         \* time.sleep(delay) calls made in this run
    fetch_failed,   \* symbols for which fetch_daily_data returned None
    k,              \* fetch_and_store_data: index of the item being stored
    j,              \* fetch_and_store_data: index of the next record of it
    pending,        \* the session's added, uncommitted rows
    db,             \* table stock_prices: the committed rows, oldest first
    total_stored,
    total_skipped,
    report,         \* what generate_analytics_report did in this run
    out,            \* what it printed and computed, and what it caught
    result,         \* what run() returned, "raised" if it raised
    trace,          \* the phases this run has been in
    setup,          \* what test_connection and create_tables returned in this run
    db0,            \* the committed rows when this run started
    replay,         \* the provider answers as in the last ingested run
    prev_data,      \* all_data of the last ingested run (<<>>: none kept)
    \* the parser applied on its own
    p_series,       \* time_series_data handed to parse_stock_data
    p_result        \* "pending", or what parse_stock_data returned / raised

pvars == <<p_series, p_result>>

fvars == <<i, all_data, requests, sleeps, fetch_failed>>

svars == <<k, j, pending, total_stored, total_skipped>>

gvars == <<db0, replay, prev_data>>

hvars == <<result, trace, setup>>

vars == <<pc, run, i, all_data, requests, sleeps, fetch_failed, k, j, pending,
          db, total_stored, total_skipped, report, out, result, trace, setup,
          db0,
          replay, prev_data, p_series, p_result>>

\* The phase of the orchestrator a position of run() belongs to.
Phase ==
    CASE pc = "idle" -> "Idle"
      [] pc \in {"test_connection", "create_tables"} -> "SettingUp"
      [] pc \in {"fetch", "fetched", "store"} -> "Ingesting"
      [] pc = "report" -> "Reporting"
      [] pc = "done" -> "Done"
      [] pc = "aborted" -> "Aborted"
      [] OTHER -> "Raised"

\* ----------------------------------------------------------------- the store
\* Index('idx_symbol_date', 'symbol', 'date', unique=True)
idx_symbol_date(row) == <<row.symbol, row.date>>

Rows(table) == {table[n] : n \in 1..Len(table)}

\* Faulty variant: the query does not see the rows the session has not flushed.
ExistingCommittedOnly(record) ==
    \E row \in {db[n] : n \in 1..Len(db)} :
        row.symbol = record["symbol"] /\ row.date = record["date"]

\* Faulty variant: the query filters on every column, created_at included.
ExistingSameRecord(record) ==
    \E row \in {db[n] : n \in 1..Len(db)} \cup {pending[n] : n \in 1..Len(pending)} :
        row = record

\* session.query(StockPrice).filter_by(symbol=..., date=...).first(): the
\* session autoflushes, so the query sees the rows added since the commit.
Existing(record) ==
    \E row \in Rows(db) \cup Rows(pending) :
        row.symbol = record["symbol"] /\ row.date = record["date"]

\* The rows of one symbol, for the report's queries.
RowsOf(symbol) == {row \in Rows(db) : row.symbol = symbol}

\* ------------------------------------------------------------------ run()
\* Nothing printed, nothing computed, nothing caught.
NoOutput == [exc |-> "none", latest |-> <<>>, computed |-> <<>>, metrics |-> <<>>]

\* No run yet, the table empty.
PipelineInit ==
    /\ pc = "idle"
    /\ run = 0
    /\ i = 1
    /\ all_data = <<>>
    /\ requests = <<>>
    /\ sleeps = 0
    /\ fetch_failed = {}
    /\ k = 1
    /\ j = 1
    /\ pending = <<>>
    /\ db = <<>>
    /\ total_stored = 0
    /\ total_skipped = 0
    /\ report = "none"
    /\ out = NoOutput
    /\ result = "none"
    /\ trace = <<>>
    /\ setup = <<>>
    /\ db0 = <<>>
    /\ replay = FALSE
    /\ prev_data = <<>>

Init ==
    /\ PipelineInit
    /\ p_series = <<>>
    /\ p_result = [state |-> "returned", exc |-> "none", data |-> <<>>]

\* A process is started and calls run(): setup_database comes first.  With
\* rp the provider will answer as in the last ingested run.
Start(rp) ==
    /\ pc \in {"idle", "done", "aborted", "raised"}
    /\ replay' = rp
    /\ prev_data' = IF rp THEN prev_data ELSE <<>>
    /\ pc' = "test_connection"
    /\ run' = run + 1
    /\ i' = 1
    /\ all_data' = <<>>
    /\ requests' = <<>>
    /\ sleeps' = 0
    /\ fetch_failed' = {}
    /\ k' = 1
    /\ j' = 1
    /\ pending' = <<>>
    /\ total_stored' = 0
    /\ total_skipped' = 0
    /\ report' = "none"
    /\ out' = NoOutput
    /\ result' = "none"
    /\ trace' = <<"SettingUp">>
    /\ setup' = <<>>
    /\ db0' = db
    /\ UNCHANGED <<db, p_series, p_result>>

\* A run against whatever the provider answers.
StartRun ==
    /\ run < MaxRuns
    /\ Start(FALSE)

\* A run in which the provider answers as in the last ingested run, when
\* there is one.
StartAgain ==
    /\ run < 1 + MaxReplays
    /\ Start(prev_data # <<>>)

\* Faulty variant: run() logs the failure and goes on with its next step.
AbortIgnored ==
    /\ pc' = IF pc = "store" THEN "report" ELSE "fetch"
    /\ trace' = Append(trace, IF pc = "store" THEN "Reporting" ELSE "Ingesting")
    /\ UNCHANGED result

\* run() returns False: "Pipeline aborted".
Abort ==
    /\ pc' = "aborted"
    /\ result' = "False"
    /\ trace' = Append(trace, "Aborted")

\* Faulty variant: setup_database logs a failed probe and goes on to create_tables.
TestConnectionIgnored ==
    /\ pc = "test_connection"
    /\ \E ok \in BOOLEAN : setup' = Append(setup, ok)
    /\ pc' = "create_tables"
    /\ UNCHANGED <<run, fvars, svars, db, report, out, result, trace, gvars, pvars>>

\* setup_database: db_manager.test_connection()
TestConnection ==
    /\ pc = "test_connection"
    /\ \E ok \in BOOLEAN :
        /\ setup' = Append(setup, ok)
        /\ IF ok THEN pc' = "create_tables" /\ UNCHANGED <<result, trace>>
           ELSE Abort
    /\ UNCHANGED <<run, fvars, svars, db, report, out, gvars, pvars>>

\* setup_database: db_manager.create_tables(); then fetch_and_store_data
\* calls fetch_multiple_symbols.
CreateTables ==
    /\ pc = "create_tables"
    /\ \E ok \in BOOLEAN :
        /\ setup' = Append(setup, ok)
        /\ IF ok THEN /\ pc' = "fetch"
                      /\ trace' = Append(trace, "Ingesting")
                      /\ UNCHANGED result
           ELSE Abort
    /\ UNCHANGED <<run, fvars, svars, db, report, out, gvars, pvars>>

\* ------------------------------------------------- fetch_multiple_symbols
\* What one iteration of the for loop computes from the provider's answer:
\* time_series = fetch_daily_data(symbol), and in the branch taken when it
\* is true, parsed_data = parse_stock_data(symbol, time_series).
Iteration(resp, symbol, now) ==
    [none |-> fetch_daily_data(resp).none,
     truthy |-> Truthy(fetch_daily_data(resp)),
     exc |-> IF Truthy(fetch_daily_data(resp))
             THEN parse_stock_data(symbol, resp.ts, now).exc ELSE "none",
     records |-> IF Truthy(fetch_daily_data(resp))
                 THEN parse_stock_data(symbol, resp.ts, now).data ELSE <<>>]

\* The iterations the provider's answers lead to, per symbol and time.
Iterations ==
    [n \in 1..Len(symbols), now \in 1..(MaxRuns + MaxReplays) |->
        {Iteration(resp, symbols[n], now) : resp \in Responses}]

\* The records of a list, whatever the time they were parsed at.
Unstamped(records) == [n \in 1..Len(records) |-> [records[n] EXCEPT !.created_at = 0]]

\* The provider answers a replayed request as it did in the last ingested
\* run.  The store loop reads an answer only through the records parsed
\* from it, so the model keeps those, not the answer.
SameAsBefore(it, n) ==
    /\ it.exc = "none"
    /\ Unstamped(it.records) = Unstamped(prev_data[n].records)

\* time.sleep(delay) calls of iteration n: the sleep is in the branch taken
\* when time_series is true.
SleepsOf(n, truthy) == IF truthy /\ n < Len(symbols) THEN 1 ELSE 0

\* Faulty variant: the return is inside the loop, the batch ends after its
\* first symbol and the store begins with the other symbols not requested.
NextSymbolEarly ==
    /\ i' = i + 1
    /\ pc' = "fetched"
    /\ UNCHANGED <<result, trace>>

\* The end of one iteration of the for loop: the next symbol, or the return.
NextSymbol ==
    /\ i' = i + 1
    /\ pc' = IF i = Len(symbols) THEN "fetched" ELSE "fetch"
    /\ UNCHANGED <<result, trace>>

\* An exception leaves fetch_multiple_symbols, fetch_and_store_data (the
\* call is before its try) and run(): the process dies.
RaiseOut ==
    /\ pc' = "raised"
    /\ result' = "raised"
    /\ trace' = Append(trace, "Raised")
    /\ UNCHANGED <<i, all_data, sleeps>>

\* Faulty variant: a fetch that gave None is raised out of the batch instead
\* of being mapped to the empty list.
FetchIterationFatal(it) ==
    /\ requests' = Append(requests, symbols[i])
    /\ fetch_failed' = IF it.none THEN fetch_failed \cup {symbols[i]}
                       ELSE fetch_failed
    /\ IF it.none \/ it.exc # "none"
       THEN RaiseOut
       ELSE /\ all_data' = Append(all_data,
                   [symbol |-> symbols[i], records |-> it.records])
            /\ sleeps' = sleeps + SleepsOf(i, it.truthy)
            /\ NextSymbol

\* One iteration of the for loop of fetch_multiple_symbols.
FetchIteration(it) ==
    /\ requests' = Append(requests, symbols[i])
    /\ fetch_failed' = IF it.none THEN fetch_failed \cup {symbols[i]}
                       ELSE fetch_failed
    /\ IF it.truthy
       THEN IF it.exc # "none"
            THEN RaiseOut
            ELSE /\ all_data' = Append(all_data,
                        [symbol |-> symbols[i], records |-> it.records])
                 /\ sleeps' = sleeps + SleepsOf(i, it.truthy)
                 /\ NextSymbol
       ELSE /\ all_data' = Append(all_data, [symbol |-> symbols[i], records |-> <<>>])
            /\ sleeps' = sleeps + SleepsOf(i, it.truthy)
            /\ NextSymbol

FetchSymbol ==
    /\ pc = "fetch"
    /\ i <= Len(symbols)
    /\ \E it \in Iterations[i, run] :
        /\ replay => SameAsBefore(it, i)
        /\ FetchIteration(it)
    /\ UNCHANGED <<run, svars, db, report, out, setup, gvars, pvars>>

\* ---------------------------------------------------- fetch_and_store_data
\* fetch_multiple_symbols has returned: the session is opened, the counters
\* are zero.
OpenSession ==
    /\ pc = "fetched"
    /\ pc' = "store"
    /\ k' = 1
    /\ j' = 1
    /\ pending' = <<>>
    /\ total_stored' = 0
    /\ total_skipped' = 0
    /\ UNCHANGED <<run, fvars, db, report, out, hvars, gvars, pvars>>

\* Faulty variant: a record whose key is persisted overwrites the persisted row.
StoreRecordUpdate ==
    /\ pc = "store"
    /\ j <= Len(all_data[k].records)
    /\ IF Existing(all_data[k].records[j])
       THEN /\ total_skipped' = total_skipped + 1
            /\ db' = [n \in 1..Len(db) |->
                        IF idx_symbol_date(db[n]) = idx_symbol_date(all_data[k].records[j])
                        THEN all_data[k].records[j] ELSE db[n]]
            /\ UNCHANGED <<pending, total_stored>>
       ELSE /\ pending' = Append(pending, all_data[k].records[j])
            /\ total_stored' = total_stored + 1
            /\ UNCHANGED <<total_skipped, db>>
    /\ j' = j + 1
    /\ UNCHANGED <<pc, run, fvars, k, report, out, hvars, gvars, pvars>>

\* One iteration of `for record in records`.
StoreRecord ==
    /\ pc = "store"
    /\ j <= Len(all_data[k].records)
    /\ IF Existing(all_data[k].records[j])
       THEN /\ total_skipped' = total_skipped + 1
            /\ UNCHANGED <<pending, total_stored>>
       ELSE /\ pending' = Append(pending, all_data[k].records[j])
            /\ total_stored' = total_stored + 1
            /\ UNCHANGED total_skipped
    /\ j' = j + 1
    /\ UNCHANGED <<pc, run, fvars, k, db, report, out, hvars, gvars, pvars>>

\* Faulty variant: the commit writes only the first of the rows the session
\* added, the others were counted as stored but are lost.
CommitFirstOnly ==
    /\ pc = "store"
    /\ j > Len(all_data[k].records)
    /\ db' = db \o SubSeq(pending, 1, IF pending = <<>> THEN 0 ELSE 1)
    /\ pending' = <<>>
    /\ k' = k + 1
    /\ j' = 1
    /\ IF k = Len(all_data)
       THEN /\ pc' = "report"
            /\ trace' = Append(trace, "Reporting")
            /\ prev_data' = all_data
       ELSE UNCHANGED <<pc, trace, prev_data>>
    /\ UNCHANGED <<run, fvars, total_stored, total_skipped, report, out, result,
                   setup, db0, replay, pvars>>

\* session.commit() after a symbol's records; after the last symbol the
\* function returns True and run() calls generate_analytics_report.
Commit ==
    /\ pc = "store"
    /\ j > Len(all_data[k].records)
    /\ db' = db \o pending
    /\ pending' = <<>>
    /\ k' = k + 1
    /\ j' = 1
    /\ IF k = Len(all_data)
       THEN /\ pc' = "report"
            /\ trace' = Append(trace, "Reporting")
            /\ prev_data' = all_data
       ELSE UNCHANGED <<pc, trace, prev_data>>
    /\ UNCHANGED <<run, fvars, total_stored, total_skipped, report, out, result,
                   setup, db0, replay, pvars>>

\* Faulty variant: the pending rows reach the table although the symbol failed.
StoreFailNoRollback ==
    /\ pc = "store"
    /\ db' = db \o pending
    /\ pending' = <<>>
    /\ Abort
    /\ UNCHANGED <<run, fvars, k, j, total_stored, total_skipped, report, out,
                   setup, gvars, pvars>>

\* The query, the add or the commit raises: except Exception rolls the
\* session back and the function returns False.
StoreFail ==
    /\ pc = "store"
    /\ pending' = <<>>
    /\ Abort
    /\ UNCHANGED <<run, fvars, k, j, db, total_stored, total_skipped, report, out,
                   setup, gvars, pvars>>

\* ------------------------------------------------ generate_analytics_report
\* The performance line's format specification ('+.2f:<13') is rejected by
\* float.__format__ with ValueError as soon as a symbol has two rows.
FormatRaises == \E n \in 1..Len(symbols) : Cardinality(RowsOf(symbols[n])) >= 2

\* order_by(StockPrice.date.desc()): the newest of some rows.
Newest(rows) == CHOOSE r \in rows : \A q \in rows : q.date <= r.date

RECURSIVE NewestFirst(_)
NewestFirst(rows) ==
    IF rows = {} THEN <<>>
    ELSE <<Newest(rows)>> \o NewestFirst(rows \ {Newest(rows)})

\* .filter_by(symbol=symbol).order_by(StockPrice.date.desc()).limit(2).all()
last_two(symbol) ==
    SubSeq(NewestFirst(RowsOf(symbol)), 1,
           IF Cardinality(RowsOf(symbol)) < 2 THEN Cardinality(RowsOf(symbol)) ELSE 2)

\* change = current.close_price - previous.close_price, in hundredths.
Change(current, previous) == current.close_price - previous.close_price

\* pct_change = (change / previous.close_price) * 100, in hundredths of a
\* percent, rounded down.
PctChange(current, previous) ==
    (Change(current, previous) * 100 * 100) \div previous.close_price

\* print(f"{symbol:<10} ${change:+.2f:<13} {pct_change:+.2f}%"): float's
\* __format__ rejects the specification '+.2f:<13' with ValueError, whatever
\* the numbers.
PerformanceLine(symbol, change, pct_change) == Raise("ValueError")

RECURSIVE LatestLoop(_, _, _)
\* The first `for symbol in self.symbols` of the report, from symbol n on:
\* one query each, a line for each symbol that has rows.  The query
\* numbered qf raises.
LatestLoop(n, qf, lines) ==
    IF n > Len(symbols) THEN [exc |-> "none", lines |-> lines]
    ELSE IF qf = n THEN [exc |-> "QueryError", lines |-> lines]
    ELSE LatestLoop(n + 1, qf,
            IF RowsOf(symbols[n]) = {} THEN lines
            ELSE Append(lines,
                    [symbol |-> symbols[n],
                     date |-> Newest(RowsOf(symbols[n])).date,
                     close_price |-> Newest(RowsOf(symbols[n])).close_price,
                     volume |-> Newest(RowsOf(symbols[n])).volume]))

\* What the body of the second loop computes for a symbol with two rows.
Computed(symbol) ==
    [symbol |-> symbol,
     change |-> Change(last_two(symbol)[1], last_two(symbol)[2]),
     pct_change |-> PctChange(last_two(symbol)[1], last_two(symbol)[2])]

RECURSIVE MetricsLoop(_, _, _, _)
\* The second `for symbol in self.symbols`, from symbol n on: the change of
\* a symbol with two rows is computed, then printed.
MetricsLoop(n, qf, computed, lines) ==
    IF n > Len(symbols)
    THEN [exc |-> "none", computed |-> computed, lines |-> lines]
    ELSE IF qf = Len(symbols) + n
    THEN [exc |-> "QueryError", computed |-> computed, lines |-> lines]
    ELSE IF Len(last_two(symbols[n])) = 2
    THEN IF PerformanceLine(symbols[n], Computed(symbols[n]).change,
                            Computed(symbols[n]).pct_change).exc # "none"
         THEN [exc |-> PerformanceLine(symbols[n], Computed(symbols[n]).change,
                                       Computed(symbols[n]).pct_change).exc,
               computed |-> Append(computed, Computed(symbols[n])),
               lines |-> lines]
         ELSE MetricsLoop(n + 1, qf, Append(computed, Computed(symbols[n])),
                          Append(lines, Computed(symbols[n])))
    ELSE MetricsLoop(n + 1, qf, computed, lines)

\* The try block of generate_analytics_report, the query numbered qf
\* raising (0: none does): the second loop runs if the first one ended.
ReportBody(qf) ==
    IF LatestLoop(1, qf, <<>>).exc # "none"
    THEN [exc |-> LatestLoop(1, qf, <<>>).exc,
          latest |-> LatestLoop(1, qf, <<>>).lines,
          computed |-> <<>>, metrics |-> <<>>]
    ELSE [exc |-> MetricsLoop(1, qf, <<>>, <<>>).exc,
          latest |-> LatestLoop(1, qf, <<>>).lines,
          computed |-> MetricsLoop(1, qf, <<>>, <<>>).computed,
          metrics |-> MetricsLoop(1, qf, <<>>, <<>>).lines]

\* Faulty variant: what raises in the report leaves it and run().
ReportRaises ==
    /\ pc = "report"
    /\ \E qf \in 0..(2 * Len(symbols)) :
        /\ out' = ReportBody(qf)
        /\ report' = IF qf # 0 \/ FormatRaises THEN "error" ELSE "complete"
        /\ IF ReportBody(qf).exc # "none"
           THEN pc' = "raised" /\ result' = "raised" /\ trace' = Append(trace, "Raised")
           ELSE pc' = "done" /\ result' = "True" /\ trace' = Append(trace, "Done")
    /\ UNCHANGED <<run, fvars, svars, db, setup, gvars, pvars>>

\* The report reads the table; whatever raises inside is logged.  Then
\* run() returns True.
Report ==
    /\ pc = "report"
    /\ \E qf \in 0..(2 * Len(symbols)) :
        /\ out' = ReportBody(qf)
        /\ report' = IF qf # 0 \/ FormatRaises THEN "error" ELSE "complete"
    /\ pc' = "done"
    /\ result' = "True"
    /\ trace' = Append(trace, "Done")
    /\ UNCHANGED <<run, fvars, svars, db, setup, gvars, pvars>>

\* The exit status of the process: exit(1) when run() returned False, 1
\* too when an exception ended it, 0 otherwise.
ExitCode == IF result = "True" THEN 0 ELSE 1

Next ==
    \/ StartRun
    \/ TestConnection
    \/ CreateTables
    \/ FetchSymbol
    \/ OpenSession
    \/ StoreRecord
    \/ Commit
    \/ StoreFail
    \/ Report

Spec == Init /\ [][Next]_vars

\* The same pipeline, each run after an ingested one being a replay of it.
ReplayNext ==
    \/ StartAgain
    \/ TestConnection
    \/ CreateTables
    \/ FetchSymbol
    \/ OpenSession
    \/ StoreRecord
    \/ Commit
    \/ StoreFail
    \/ Report

ReplaySpec == Init /\ [][ReplayNext]_vars

\* ------------------------------------------------- the parser on its own
ParseInit ==
    /\ PipelineInit
    /\ p_series \in SeriesSet
    /\ p_result = [state |-> "pending", exc |-> "none", data |-> <<>>]

\* parse_stock_data(symbol, time_series_data) is called and returns or raises.
ParseCall ==
    /\ p_result.state = "pending"
    /\ p_result' = [state |-> "returned",
                    exc |-> parse_stock_data(symbols[1], p_series, 1).exc,
                    data |-> parse_stock_data(symbols[1], p_series, 1).data]
    /\ UNCHANGED <<pc, run, fvars, svars, db, report, out, hvars, gvars,
                   p_series>>

ParseNext == ParseCall

ParseSpec == ParseInit /\ [][ParseNext]_vars

\* ================================================================ claims
IsPrefix(a, b) == Len(a) <= Len(b) /\ SubSeq(b, 1, Len(a)) = a

\* A row with the record's (symbol, date) is committed.
Persisted(record) ==
    \E n \in 1..Len(db) : idx_symbol_date(db[n]) = idx_symbol_date(record)

RowsIn(table, symbol) == {table[n] : n \in {m \in 1..Len(table) : table[m].symbol = symbol}}

RECURSIVE BatchSize(_)
\* The number of points of a batch (the items of all_data).
BatchSize(items) ==
    IF items = <<>> THEN 0
    ELSE Len(items[1].records) + BatchSize(Tail(items))

\* C1: in every reachable state, no two rows of the table stock_prices have
\* the same (symbol, date), whatever the runs before and whatever was
\* fetched, series with two entries for one calendar date included.
C1_Uniqueness ==
    \A a, b \in 1..Len(db) :
        idx_symbol_date(db[a]) = idx_symbol_date(db[b]) => a = b

\* A second run has committed a series whose two entries are one calendar
\* date, on a table that held rows already.
C1_Witness ==
    /\ run = 2
    /\ pc = "report"
    /\ Len(db0) > 0
    /\ Len(db) > Len(db0)
    /\ \E n \in 1..Len(all_data) :
        /\ Len(all_data[n].records) = 2
        /\ all_data[n].records[1].date = all_data[n].records[2].date
        /\ all_data[n].records[1].close_price # all_data[n].records[2].close_price

\* C2: a run in which the provider answers every symbol as in the last
\* ingested run, once its ingestion has returned, has stored 0 points and
\* skipped as many as the batch holds, and the table is what it was when
\* the run started; so for each further replay.
C2_Idempotence ==
    (replay /\ pc \in {"report", "done"}) =>
        /\ total_stored = 0
        /\ total_skipped = BatchSize(all_data)
        /\ db = db0

\* The second replay of a batch of as many points as a batch can hold has
\* been ingested.
C2_Witness ==
    /\ replay
    /\ run = 3
    /\ pc = "report"
    /\ BatchSize(all_data) = NumSymbols * MaxLen
    /\ total_skipped = BatchSize(all_data)

\* C3: no step updates or deletes a committed row (the table only grows at
\* its end); a record whose (symbol, date) is committed is counted as
\* skipped and nothing is added for it; setup and report leave the table
\* as it is.
C3_AppendOnly ==
    [][ /\ IsPrefix(db, db')
        /\ (Phase \in {"SettingUp", "Reporting"} => db' = db)
        /\ (pc = "store" /\ j <= Len(all_data[k].records) /\ j' = j + 1
            /\ Persisted(all_data[k].records[j]))
           => (/\ total_skipped' = total_skipped + 1
               /\ total_stored' = total_stored
               /\ pending' = pending
               /\ db' = db) ]_vars

\* A record has just been skipped whose (symbol, date) is committed with
\* another price and another volume.
C3_Witness ==
    /\ pc = "store"
    /\ j > 1
    /\ total_skipped >= 1
    /\ \E n \in 1..Len(db) :
        /\ idx_symbol_date(db[n]) = idx_symbol_date(all_data[k].records[j - 1])
        /\ db[n].close_price # all_data[k].records[j - 1].close_price
        /\ db[n].volume # all_data[k].records[j - 1].volume

\* C4: when fetch_multiple_symbols returns, it has slept once between each
\* two consecutive requests, N - 1 times, whatever the fetches gave.
C4_ThrottleSpacing ==
    pc = "fetched" => sleeps = Len(symbols) - 1

\* C5: once the fetch of a symbol has failed, the batch does not end by an
\* exception; when it returns, every symbol was requested, a symbol whose
\* fetch failed maps to the empty list and the mapping has every symbol.
C5_FetchIsolation ==
    /\ (fetch_failed # {} => pc # "raised")
    /\ (pc = "fetched" =>
          /\ requests = symbols
          /\ Len(all_data) = Len(symbols)
          /\ \A n \in 1..Len(symbols) :
               /\ all_data[n].symbol = symbols[n]
               /\ symbols[n] \in fetch_failed => all_data[n].records = <<>>)

\* C6: after a run that ended because the store failed at the k-th symbol,
\* every point of the symbols before it is committed, the rows the table
\* had are still there, and the k-th symbol has no row it did not have
\* when the run started.
C6_PartialRunDurability ==
    (pc = "aborted" /\ trace = <<"SettingUp", "Ingesting", "Aborted">>) =>
        /\ IsPrefix(db0, db)
        /\ \A n \in 1..(k - 1) :
             \A m \in 1..Len(all_data[n].records) :
                Persisted(all_data[n].records[m])
        /\ pending = <<>>
        /\ RowsIn(db, all_data[k].symbol) = RowsIn(db0, all_data[k].symbol)

\* The store failed at the second symbol, which had a point pending, after
\* the first symbol's points were committed.
C6_Witness ==
    /\ pc = "aborted"
    /\ k = 2
    /\ j > 1
    /\ Len(db) > Len(db0)
    /\ \E m \in 1..(j - 1) : ~Persisted(all_data[k].records[m])

WellFormed(e) ==
    /\ e.date_str \in DOMAIN DateLiteral
    /\ e.values.t = "object"
    /\ \A n \in 1..4 :
         /\ e.values.f[FieldKeys[n]].t = "str"
         /\ e.values.f[FieldKeys[n]].s \in DOMAIN FloatLiteral
    /\ e.values.f[FieldKeys[5]].t = "str"
    /\ e.values.f[FieldKeys[5]].s \in DOMAIN IntLiteral

\* An entry whose value is an object with strings at the fields it has:
\* all that can be wrong is a string that is no numeral, a missing field,
\* a key that is no date.
Typed(e) ==
    /\ e.values.t = "object"
    /\ \A n \in 1..5 : e.values.f[FieldKeys[n]].t \in {"str", "absent"}

\* The point of a well-formed entry.
PointOf(symbol, e, now) ==
    [symbol |-> symbol,
     date |-> DateLiteral[e.date_str],
     open_price |-> FloatLiteral[e.values.f["1. open"].s],
     high_price |-> FloatLiteral[e.values.f["2. high"].s],
     low_price |-> FloatLiteral[e.values.f["3. low"].s],
     close_price |-> FloatLiteral[e.values.f["4. close"].s],
     volume |-> IntLiteral[e.values.f["5. volume"].s],
     created_at |-> now]

RECURSIVE ExpectedPoints(_, _, _)
ExpectedPoints(symbol, ts, now) ==
    IF ts = <<>> THEN <<>>
    ELSE IF WellFormed(Head(ts))
         THEN <<PointOf(symbol, Head(ts), now)>> \o ExpectedPoints(symbol, Tail(ts), now)
    ELSE ExpectedPoints(symbol, Tail(ts), now)

\* C8: of a series of N entries, k of them with a non-numeric string, a
\* missing field or an unparseable date key and the others well-formed,
\* parse_stock_data returns N - k points: the well-formed entries' points,
\* in the order of the series.
C8_ParserIsolation ==
    (p_result.state = "returned" /\ \A n \in 1..Len(p_series) : Typed(p_series[n])) =>
        /\ p_result.exc = "none"
        /\ Len(p_result.data) =
             Len(p_series) - Cardinality({n \in 1..Len(p_series) : ~WellFormed(p_series[n])})
        /\ p_result.data = ExpectedPoints(symbols[1], p_series, 1)

\* A series whose first entry has a non-numeric string and whose second is
\* well-formed has been parsed.
C8_Witness ==
    /\ p_result.state = "returned"
    /\ Len(p_series) = 2
    /\ Typed(p_series[1])
    /\ ~WellFormed(p_series[1])
    /\ p_series[1].date_str \in DOMAIN DateLiteral
    /\ p_series[1].values.f["4. close"] = Str("abc")
    /\ WellFormed(p_series[2])
    /\ Len(p_result.data) = 1

\* C9: whatever is wrong with a day-entry, parse_stock_data drops it and
\* does not raise: no run ends by an exception out of the parser.
C9_FailClosed ==
    /\ pc # "raised"
    /\ p_result.exc = "none"

NormalPhases == <<"SettingUp", "Ingesting", "Reporting", "Done">>

IsNormal(ph) == ph \in {NormalPhases[n] : n \in 1..4}

\* C10: the phases a run has been in are SettingUp, Ingesting, Reporting,
\* Done in this order, none twice, none skipped; a run one of whose setup
\* steps failed is Aborted right from SettingUp, has requested nothing
\* from the provider, has left the table as it was and has made no report.
C10_PhaseOrder ==
    /\ IsPrefix(SelectSeq(trace, IsNormal), NormalPhases)
    /\ (run > 0 => trace # <<>> /\ trace[Len(trace)] = Phase)
    /\ (\E n \in 1..Len(setup) : ~setup[n]) =>
          /\ pc = "aborted"
          /\ trace = <<"SettingUp", "Aborted">>
          /\ requests = <<>>
          /\ db = db0
          /\ pending = <<>>
          /\ total_stored = 0
          /\ report = "none"
    /\ (pc \in {"fetch", "fetched", "store", "report", "done"} =>
          setup = <<TRUE, TRUE>>)

\* The schema step of a second run failed, on a table that holds rows.
C10_Witness ==
    /\ run = 2
    /\ pc = "aborted"
    /\ setup = <<TRUE, FALSE>>
    /\ Len(db) > 0

-----------------------------------------------------------------------------
\* C11: reporting never aborts the run.  Once the report is entered, what
\* raises inside it (a query, the computation or the formatting of a
\* symbol's line) is caught: the run ends in Done, run() returns True and
\* the exit code is 0, as for a report in which nothing raised.
C11_ReportNeverAborts ==
    /\ "Reporting" \in {trace[n] : n \in 1..Len(trace)} =>
          \/ pc = "report" /\ result = "none" /\ report = "none"
          \/ pc = "done" /\ result = "True" /\ ExitCode = 0 /\ report # "none"
    /\ out.exc # "none" =>
          pc = "done" /\ report = "error" /\ result = "True" /\ ExitCode = 0
    /\ pc = "done" => trace[Len(trace)] = "Done" /\ ExitCode = 0

\* A run whose report caught the formatting error of a symbol with two rows,
\* after the first loop had printed, and ended in Done with exit code 0.
C11_Witness ==
    /\ pc = "done"
    /\ out.exc = "ValueError"
    /\ out.latest # <<>>
    /\ ExitCode = 0

-----------------------------------------------------------------------------
\* The rows of a symbol with the greatest and the second-greatest date.
LatestPoint(symbol) == Newest(RowsOf(symbol))

PreviousPoint(symbol) == Newest(RowsOf(symbol) \ {LatestPoint(symbol)})

\* The change the report owes a symbol with two persisted points.
ExpectedChange(symbol) ==
    [symbol |-> symbol,
     change |-> LatestPoint(symbol).close_price - PreviousPoint(symbol).close_price,
     pct_change |->
        ((LatestPoint(symbol).close_price - PreviousPoint(symbol).close_price)
            * 100 * 100) \div PreviousPoint(symbol).close_price]

\* C12: day-over-day change.  In a report whose queries all answered, the
\* change and the percentage change of every symbol with at least two
\* persisted points are computed from its two newest points by date (closes
\* 150.00 then 153.00: +3.00 and +2.00), and none is computed for a symbol
\* with fewer than two points.
C12_DayOverDayChange ==
    pc = "done" /\ out.exc # "QueryError" =>
        \A n \in 1..Len(symbols) :
            IF Cardinality(RowsOf(symbols[n])) >= 2
            THEN /\ \E m \in 1..Len(out.computed) :
                        out.computed[m] = ExpectedChange(symbols[n])
                 /\ LatestPoint(symbols[n]).close_price = FloatLiteral["153.00"]
                    /\ PreviousPoint(symbols[n]).close_price = FloatLiteral["150.00"]
                    => \E m \in 1..Len(out.computed) :
                          /\ out.computed[m].symbol = symbols[n]
                          /\ out.computed[m].change = 300
                          /\ out.computed[m].pct_change = 200
            ELSE \A m \in 1..Len(out.computed) :
                    out.computed[m].symbol # symbols[n]

\* The part of C12 the code does keep: the first symbol with two rows gets
\* its change computed from its two newest rows, and no symbol with fewer
\* rows gets one.
C12_FirstSymbolOnly ==
    pc = "done" /\ out.exc # "QueryError" =>
        /\ \A m \in 1..Len(out.computed) :
              /\ Cardinality(RowsOf(out.computed[m].symbol)) >= 2
              /\ out.computed[m] = ExpectedChange(out.computed[m].symbol)
        /\ FormatRaises => Len(out.computed) = 1 /\ out.metrics = <<>>

-----------------------------------------------------------------------------
\* The place of a symbol in the input list.
IndexOf(symbol) == CHOOSE n \in 1..Len(symbols) : symbols[n] = symbol

\* C13: sequential single-attempt fetch.  The requests of a run are the
\* symbols in input order, none twice, also after a failed fetch; once the
\* batch has ended each symbol has been requested once; the symbols are
\* then stored in input order.
C13_SequentialSingleAttempt ==
    /\ IsPrefix(requests, symbols)
    /\ pc \in {"fetched", "store", "report", "done", "raised"} =>
          requests = symbols
    /\ \A n \in 1..Len(all_data) : all_data[n].symbol = symbols[n]
    /\ \A a, b \in (Len(db0) + 1)..Len(db) :
          a < b => IndexOf(db[a].symbol) <= IndexOf(db[b].symbol)

-----------------------------------------------------------------------------
\* C14 as stated: each symbol is fetched, parsed and upserted before the
\* next one is started, so that when a symbol is requested the points of
\* every symbol requested before it are committed.
C14_PerSymbolPipeline ==
    \A n \in 1..Len(all_data) :
        Len(requests) > n =>
            \A m \in 1..Len(all_data[n].records) :
                Persisted(all_data[n].records[m])

\* C14, amended: every request of a run is issued, and every series parsed,
\* before the first point of the run is stored.  While symbols are being
\* requested nothing has been added, committed or counted; whenever a
\* point has been looked up, added or committed, every symbol has been
\* requested and fetch_multiple_symbols has returned the whole mapping,
\* and the symbols before the one being stored are committed.
C14_FetchAllThenStore ==
    /\ pc \in {"fetch", "fetched", "raised"} =>
          /\ db = db0
          /\ pending = <<>>
          /\ total_stored = 0 /\ total_skipped = 0
          /\ k = 1 /\ j = 1
    /\ pc = "store" \/ db # db0 \/ pending # <<>>
          \/ total_stored + total_skipped > 0 =>
          /\ requests = symbols
          /\ Len(all_data) = Len(symbols)
          /\ \A n \in 1..(k - 1) : \A m \in 1..Len(all_data[n].records) :
                Persisted(all_data[n].records[m])

\* The first symbol's points are committed and the second symbol, requested
\* before any of them was stored, is being stored.
C14_Witness ==
    /\ pc = "store"
    /\ k = 2
    /\ Len(db) > Len(db0)
    /\ all_data[1].records # <<>>
    /\ all_data[2].records # <<>>
    /\ requests = symbols

-----------------------------------------------------------------------------
\* The (symbol, date) keys of the rows of a table.
KeysOf(table) == {idx_symbol_date(table[n]) : n \in 1..Len(table)}

\* The places <<n, m>> of the parsed points of a batch.
PointsOf(items) ==
    {pt \in (1..Len(items)) \X (1..MaxLen) : pt[2] <= Len(items[pt[1]].records)}

\* The parsed point at a place was already present when its turn came: its
\* key was in the table when the run started, or belongs to a point before
\* it in the batch.
AlreadyPresent(items, pt) ==
    \/ idx_symbol_date(items[pt[1]].records[pt[2]]) \in KeysOf(db0)
    \/ \E q \in PointsOf(items) :
          /\ q[1] < pt[1] \/ (q[1] = pt[1] /\ q[2] < pt[2])
          /\ idx_symbol_date(items[q[1]].records[q[2]])
                = idx_symbol_date(items[pt[1]].records[pt[2]])

\* C15: when the ingestion of a run has completed without a store error,
\* total_stored + total_skipped is the number of points the parser
\* returned over all symbols, the table has grown by exactly total_stored
\* rows, and total_skipped counts the parsed points whose (symbol, date)
\* was in the table before the run or was added earlier in the run.
C15_StoredSkippedAccounting ==
    pc \in {"report", "done"} =>
        /\ total_stored + total_skipped = BatchSize(all_data)
        /\ Len(db) = Len(db0) + total_stored
        /\ total_skipped =
              Cardinality({pt \in PointsOf(all_data) : AlreadyPresent(all_data, pt)})

\* A completed ingestion that stored a point, skipped a point persisted by
\* the run before and skipped a second entry for a date added in this run.
C15_Witness ==
    /\ pc = "report"
    /\ total_stored > 0
    /\ total_skipped >= 2
    /\ \E pt \in PointsOf(all_data) :
          idx_symbol_date(all_data[pt[1]].records[pt[2]]) \in KeysOf(db0)
    /\ \E pt \in PointsOf(all_data) :
          /\ idx_symbol_date(all_data[pt[1]].records[pt[2]]) \notin KeysOf(db0)
          /\ AlreadyPresent(all_data, pt)

-----------------------------------------------------------------------------
\* setup_database returned False: the probe or create_tables failed.
SetupFailed == \E n \in 1..Len(setup) : ~setup[n]

\* The store of the run failed: run() aborted after the whole fetch stage.
StoreRaised ==
    /\ pc = "aborted"
    /\ trace = <<"SettingUp", "Ingesting", "Aborted">>
    /\ requests = symbols
    /\ Len(all_data) = Len(symbols)

\* C16: fetch failures are not fatal.  A symbol whose fetch failed yields
\* and stores no point and keeps the rows it had; a failed fetch never ends
\* the run (an exception out of the batch comes from a symbol whose fetch
\* gave a series), a run that ends in Done exits with 0, all its fetches
\* failed or not, and a run exits with a nonzero code only if the setup
\* failed or the ingestion raised (out of the parser, or in the store).
C16_FetchFailuresNonFatal ==
    /\ \A s \in fetch_failed :
          /\ RowsIn(db, s) = RowsIn(db0, s)
          /\ RowsIn(pending, s) = {}
          /\ \A n \in 1..Len(all_data) :
                all_data[n].symbol = s => all_data[n].records = <<>>
    /\ pc = "raised" =>
          /\ requests # <<>>
          /\ requests[Len(requests)] \notin fetch_failed
          /\ ~SetupFailed
    /\ pc = "done" =>
          /\ ExitCode = 0
          /\ "Reporting" \in {trace[n] : n \in 1..Len(trace)}
          /\ ~SetupFailed
    /\ pc \in {"done", "aborted", "raised"} /\ ExitCode # 0 =>
          SetupFailed \/ pc = "raised" \/ StoreRaised

\* The second run of a table that has rows of every symbol: every fetch
\* failed, the report was entered, the run ended in Done with exit code 0
\* and the table is as it was.
C16_Witness ==
    /\ pc = "done"
    /\ fetch_failed = SymbolSet
    /\ ExitCode = 0
    /\ db = db0
    /\ \A s \in SymbolSet : RowsIn(db, s) # {}
    /\ report # "none"

====
